---- MODULE Spec2Model ----
(***************************************************************************)
(* HireLens-AI backend: the resume pipeline (PDF text, cleaning, skill     *)
(* extraction, ATS scoring, job matching, AI feedback) and the request     *)
(* handlers of resume.py, jobs.py and main.py over the four tables of      *)
(* models.py.                                                              *)
(*                                                                         *)
(* A text is modelled by what the regular expressions and the NLP model of *)
(* the code read from it: its length, its length after strip(), the number *)
(* of characters clean_text removes, the counts the scorer takes, and the  *)
(* dictionary entries found in it.  Floating point numbers are modelled as *)
(* exact rationals; a value rounded to two decimals is an integer number   *)
(* of hundredths.                                                          *)
(***************************************************************************)
EXTENDS Integers, Sequences, FiniteSets, TLC

VARIABLES
    users,      \* table users:   set of rows [id, email]
    resumes,    \* table resumes: set of rows (see ResumeRow)
    jobs,       \* table jobs:    set of rows [id, title, description, required_skills]
    job_matches,\* table job_matches: set of rows [id, resume_id, job_id]
    nextId,     \* autoincrement counters, [users, resumes, jobs, job_matches]
    req,        \* the request being answered (operation and its inputs)
    resp,       \* the answer to it: [status, detail, body]
    fnIn,       \* pure-function specifications: the inputs drawn
    fnOut       \* pure-function specifications: <<>>, then <<the result>>

vars == <<users, resumes, jobs, job_matches, nextId, req, resp, fnIn, fnOut>>
dbVars == <<users, resumes, jobs, job_matches, nextId>>

\* ------------------------------------------------------------------ bounds

NTech == 12         \* size of the technical-skill dictionary of the model
MaxVerbs == 20      \* most action verbs in a sampled text
MaxNouns == 60      \* most distinct noun keywords in a sampled text
CosSteps == 4       \* cosine similarity is drawn from k / CosSteps, k in 0..CosSteps
MaxResumes == 2     \* resume uploads accepted in one run
MaxJobs == 1        \* jobs created in one run
MaxUsers == 2       \* users added in one run of the data model
MaxMatches == 2     \* job matches added in one run of the data model
NProcs == 2         \* requests handled at the same time
MaxRuns == 3        \* most runs of equal characters in a sampled string

\* ------------------------------------------------------- exact rationals

Min(a, b) == IF a <= b THEN a ELSE b

RECURSIVE Gcd(_, _)
Gcd(a, b) == IF b = 0 THEN a ELSE Gcd(b, a % b)

\* n/d in lowest terms, d > 0, n >= 0
Rat(n, d) == LET g == Gcd(n, d) IN IF n = 0 THEN [n |-> 0, d |-> 1] ELSE [n |-> n \div g, d |-> d \div g]
RInt(k) == [n |-> k, d |-> 1]
RAdd(a, b) == Rat(a.n * b.d + b.n * a.d, a.d * b.d)
RMul(a, b) == Rat(a.n * b.n, a.d * b.d)
RLe(a, b) == a.n * b.d <= b.n * a.d
RMin(a, b) == IF RLe(a, b) THEN a ELSE b

\* Python's round(x, 2), as a number of hundredths: the nearest, a tie to the even one
Round2(r) ==
    LET q == (r.n * 100) \div r.d
        rem2 == 2 * ((r.n * 100) % r.d)
    IN  IF rem2 < r.d THEN q
        ELSE IF rem2 > r.d THEN q + 1
        ELSE IF q % 2 = 0 THEN q ELSE q + 1

\* ------------------------------------------------------------ skill names

\* A dictionary entry is a lower-case string, modelled by its rank in the
\* alphabet; str.title() and str.lower() change the case and keep the rank.
Word(k) == [w |-> k, c |-> "lower"]
title(s) == [s EXCEPT !.c = "title"]
lower(s) == [s EXCEPT !.c = "lower"]

TECHNICAL_SKILLS == {Word(k) : k \in 1..NTech}
PROGRAMMING_PATTERNS == {Word(NTech + 1)}
SOFT_SKILLS == {Word(NTech + 2), Word(NTech + 3)}
TOOLS == {Word(NTech + 4)}

RECURSIVE sorted_descending(_)
sorted_descending(S) ==
    IF S = {} THEN <<>>
    ELSE LET m == CHOOSE x \in S : \A y \in S : x.w >= y.w
         IN  <<m>> \o sorted_descending(S \ {m})

RECURSIVE sorted(_)
sorted(S) ==
    IF S = {} THEN <<>>
    ELSE LET m == CHOOSE x \in S : \A y \in S : x.w <= y.w
         IN  <<m>> \o sorted(S \ {m})

Range(q) == {q[i] : i \in 1..Len(q)}
Take(q, k) == SubSeq(q, 1, Min(k, Len(q)))

\* ------------------------------------------------------------------ texts

NoText ==
    [len |-> 0, strip |-> 0, junk |-> 0, sections |-> 0, nouns |-> 0, verbs |-> 0,
     numbers |-> 0, expkw |-> 0, email |-> FALSE, phone |-> FALSE, dates |-> FALSE,
     bullets |-> FALSE, words |-> 0, tech |-> {}, prog |-> {}, soft |-> {}, tools |-> {}]

\* ------------------------------------------------------- skill_extractor.py

NoSkills == [all_skills |-> <<>>, technical_skills |-> <<>>, soft_skills |-> <<>>, tools |-> <<>>]

\* A str is modelled by a record with the field len, any other value by a
\* record without it: "if not text or not isinstance(text, str)".
extract_skills(text) ==
    IF "len" \notin DOMAIN text \/ text.len = 0 THEN NoSkills
    ELSE LET technical_found == {title(s) : s \in (text.tech \cap TECHNICAL_SKILLS) \cup text.prog}
             soft_found == {title(s) : s \in text.soft \cap SOFT_SKILLS}
             tools_found == {title(s) : s \in text.tools \cap TOOLS}
         IN  [all_skills |-> sorted(technical_found \cup soft_found \cup tools_found),
              technical_skills |-> sorted(technical_found),
              soft_skills |-> sorted(soft_found),
              tools |-> sorted(tools_found)]

MostCommon == 50
MinKeywordText == 10

\* the number of keywords extract_keywords returns
extract_keywords(text) ==
    IF text.len = 0 \/ text.strip < MinKeywordText THEN 0
    ELSE Min(text.nouns, MostCommon)

count_action_verbs(text) == text.verbs

\* ------------------------------------------------------------ ats_scorer.py

NumSections == 9        \* len(important_sections)
NumExperienceKeywords == 10     \* len(experience_keywords)

\* min(count / target * 100, 100)
Capped(count, target) == RMin(Rat(count * 100, target), RInt(100))

keyword_density_score(text) ==
    LET section_score == Capped(text.sections, 6)
        keyword_score == Capped(extract_keywords(text), 30)
        tech_skill_score == Capped(Len(extract_skills(text).technical_skills), 10)
    IN  RMul(RAdd(RAdd(section_score, keyword_score), tech_skill_score), Rat(1, 3))

formatting_score(text) ==
    RInt((IF text.email THEN 20 ELSE 0)
       + (IF text.phone THEN 20 ELSE 0)
       + (IF text.dates THEN 20 ELSE 0)
       + (IF text.bullets THEN 20 ELSE 0)
       + (IF 400 <= text.words /\ text.words <= 2000 THEN 20
          ELSE IF text.words > 300 THEN 10 ELSE 0))

action_verbs_uncapped(text) == Rat(count_action_verbs(text) * 100, 15)
action_verbs_score(text) == Capped(count_action_verbs(text), 15)

experience_score(text) ==
    RAdd(RInt(IF text.numbers >= 5 THEN 50 ELSE IF text.numbers >= 2 THEN 25 ELSE 0),
         RMin(Rat(text.expkw * 50, 5), RInt(50)))

skill_match_score(text, job_description) ==
    IF job_description.len # 0
    THEN LET job_all_skills == {lower(s) : s \in Range(extract_skills(job_description).all_skills)}
             resume_all_skills == {lower(s) : s \in Range(extract_skills(text).all_skills)}
         IN  IF job_all_skills # {}
             THEN Rat(Cardinality(resume_all_skills \cap job_all_skills) * 100,
                      Cardinality(job_all_skills))
             ELSE RInt(50)
    ELSE RInt(50)

ats_scores(text, job_description) ==
    [keyword_density |-> keyword_density_score(text),
     formatting |-> formatting_score(text),
     action_verbs |-> action_verbs_score(text),
     experience |-> experience_score(text),
     skill_match |-> skill_match_score(text, job_description)]

ScoreKeys == {"keyword_density", "formatting", "action_verbs", "experience", "skill_match"}

\* the weights, in hundredths
weights_skewed ==
    [keyword_density |-> 40, formatting |-> 20, action_verbs |-> 15,
     experience |-> 15, skill_match |-> 15]
weights ==
    [keyword_density |-> 40, formatting |-> 20, action_verbs |-> 15,
     experience |-> 15, skill_match |-> 10]

RECURSIVE RSum(_, _)
RSum(f, K) ==
    IF K = {} THEN RInt(0)
    ELSE LET k == CHOOSE x \in K : TRUE IN RAdd(f[k], RSum(f, K \ {k}))

calculate_ats_score(resume_text, job_description) ==
    LET scores == ats_scores(resume_text, job_description)
        final_score == RSum([key \in ScoreKeys |-> RMul(scores[key], Rat(weights[key], 100))], ScoreKeys)
    IN  [overall_score |-> Round2(final_score),
         keyword_density |-> Round2(scores.keyword_density),
         formatting |-> Round2(scores.formatting),
         action_verbs |-> Round2(scores.action_verbs),
         experience |-> Round2(scores.experience),
         skill_match |-> Round2(scores.skill_match)]

\* ------------------------------------------------------------ sampled texts

SkillSamples ==
    { [tech |-> {}, prog |-> {}, soft |-> {}, tools |-> {}],
      [tech |-> {Word(1), Word(2)}, prog |-> {}, soft |-> {Word(NTech + 2)}, tools |-> TOOLS],
      [tech |-> {Word(2), Word(3)}, prog |-> {}, soft |-> {}, tools |-> {}],
      [tech |-> TECHNICAL_SKILLS, prog |-> PROGRAMMING_PATTERNS, soft |-> SOFT_SKILLS, tools |-> {}] }

JobSkillSamples ==
    { [tech |-> {}, prog |-> {}, soft |-> {}, tools |-> {}],
      [tech |-> {Word(1)}, prog |-> {}, soft |-> {}, tools |-> {}],
      [tech |-> {Word(1), Word(2), Word(3)}, prog |-> {}, soft |-> SOFT_SKILLS, tools |-> {}],
      [tech |-> {}, prog |-> {}, soft |-> {}, tools |-> TOOLS] }

WithSkills(t, k) == [t EXCEPT !.tech = k.tech, !.prog = k.prog, !.soft = k.soft, !.tools = k.tools]

\* a job description of raw length n that strips to m characters
JobText(n, m, k) == WithSkills([NoText EXCEPT !.len = n, !.strip = m, !.words = m \div 6], k)

AtsJobs == {NoText} \cup {JobText(600, 600, k) : k \in JobSkillSamples}

AtsTexts ==
    {NoText} \cup
    { WithSkills([len |-> 6 * w, strip |-> 6 * w, junk |-> 0, sections |-> s, nouns |-> n,
                  verbs |-> v, numbers |-> q, expkw |-> e, email |-> b[1], phone |-> b[2],
                  dates |-> b[3], bullets |-> b[4], words |-> w,
                  tech |-> {}, prog |-> {}, soft |-> {}, tools |-> {}], k) :
        s \in {0, 4, NumSections}, n \in {7, MaxNouns}, v \in {0, 4, MaxVerbs},
        q \in {0, 2, 5}, e \in {3, NumExperienceKeywords},
        b \in [1..4 -> BOOLEAN], w \in {120, 350, 1000}, k \in SkillSamples }

\* ------------------------------------------- specification: calculate_ats_score

Idle == [op |-> "none"]
NoResp == [status |-> 0, detail |-> "", body |-> [kind |-> "none"]]

DbEmpty ==
    /\ users = {} /\ resumes = {} /\ jobs = {} /\ job_matches = {}
    /\ nextId = [users |-> 1, resumes |-> 1, jobs |-> 1, job_matches |-> 1]

InitAts ==
    /\ DbEmpty /\ req = Idle /\ resp = NoResp
    /\ fnIn \in [text : AtsTexts, jd : AtsJobs]
    /\ fnOut = <<>>

ScoreAts ==
    /\ fnOut = <<>>
    /\ fnOut' = <<calculate_ats_score(fnIn.text, fnIn.jd)>>
    /\ UNCHANGED <<dbVars, req, resp, fnIn>>

NextAts == ScoreAts

SpecAts == InitAts /\ [][NextAts]_vars

\* C1: in every result of calculate_ats_score the overall score and each of
\* the five component scores lie between 0 and 100 inclusive (0..10000
\* hundredths), with or without a job description.
C1_AtsScoresInRange ==
    fnOut # <<>> =>
        \A k \in ScoreKeys \cup {"overall_score"} : fnOut[1][k] \in 0..10000

\* C1, witness: a text with more than 15 action verbs and a job description
\* whose skills it all has scores 100 overall: every cap is in force.
C1_Witness ==
    /\ fnOut # <<>>
    /\ fnIn.text.verbs > 15 /\ fnIn.jd.len # 0
    /\ fnOut[1].action_verbs = 10000
    /\ fnOut[1].overall_score = 10000

\* C2: the overall score is 0.40 keyword_density + 0.20 formatting + 0.15
\* action_verbs + 0.15 experience + 0.10 skill_match of the component
\* scores, rounded to two decimals, and the five weights sum to 1.
C2_AtsWeightedSum ==
    fnOut # <<>> =>
        LET sc == ats_scores(fnIn.text, fnIn.jd)
            total == RAdd(RAdd(RAdd(RAdd(RMul(sc.keyword_density, Rat(40, 100)),
                                         RMul(sc.formatting, Rat(20, 100))),
                                    RMul(sc.action_verbs, Rat(15, 100))),
                               RMul(sc.experience, Rat(15, 100))),
                          RMul(sc.skill_match, Rat(10, 100)))
        IN  /\ fnOut[1].overall_score = Round2(total)
            /\ weights.keyword_density + weights.formatting + weights.action_verbs
                 + weights.experience + weights.skill_match = 100

\* C2, witness: a result whose five components are all positive, not all
\* equal, and whose overall score is not a whole number.
C2_Witness ==
    /\ fnOut # <<>>
    /\ \A k \in ScoreKeys : fnOut[1][k] > 0
    /\ fnOut[1].keyword_density # fnOut[1].skill_match
    /\ fnOut[1].overall_score % 100 # 0

\* ---------------------------------------------------------------- matcher.py

\* the rate of lines 38-46: matched over required, 0.5 when nothing is required
match_rate_percent_default(matched, required) ==
    IF required # {} THEN Rat(Cardinality(matched), Cardinality(required)) ELSE RInt(50)
match_rate(matched, required) ==
    IF required # {} THEN Rat(Cardinality(matched), Cardinality(required)) ELSE Rat(1, 2)

MinTfidfText == 10

\* tfidf is what the TF-IDF computation does when it is run: it raises, or
\* it returns the cosine similarity tfidf.cos.  The result is what lines
\* 50-64 end with: the exception that leaves them ("none" when none does)
\* and the value of cosine_sim.
cosine_of_uncaught(resume_text, job_description, tfidf) ==
    IF resume_text.strip > MinTfidfText /\ job_description.strip > MinTfidfText
    THEN IF tfidf.raises THEN [exc |-> "Exception", cos |-> Rat(1, 2)]
         ELSE [exc |-> "none", cos |-> tfidf.cos]
    ELSE [exc |-> "none", cos |-> Rat(1, 2)]
cosine_of(resume_text, job_description, tfidf) ==
    IF resume_text.strip > MinTfidfText /\ job_description.strip > MinTfidfText /\ ~tfidf.raises
    THEN [exc |-> "none", cos |-> tfidf.cos]
    ELSE [exc |-> "none", cos |-> Rat(1, 2)]

\* the weights of lines 68-72, in hundredths
match_weights_swapped == [skill |-> 30, technical |-> 40, cosine |-> 30]
match_weights == [skill |-> 40, technical |-> 30, cosine |-> 30]

calculate_match_score(resume_text, job_description, tfidf) ==
    LET resume_skills == extract_skills(resume_text)
        job_skills == extract_skills(job_description)
        resume_all_skills == {lower(s) : s \in Range(resume_skills.all_skills)}
        job_all_skills == {lower(s) : s \in Range(job_skills.all_skills)}
        resume_technical == {lower(s) : s \in Range(resume_skills.technical_skills)}
        job_technical == {lower(s) : s \in Range(job_skills.technical_skills)}
        matched_skills == resume_all_skills \cap job_all_skills
        missing_skills == job_all_skills \ resume_all_skills
        matched_technical == resume_technical \cap job_technical
        missing_technical == job_technical \ resume_technical
        skill_match_rate == match_rate(matched_skills, job_all_skills)
        technical_match_rate == match_rate(matched_technical, job_technical)
        tried == cosine_of(resume_text, job_description, tfidf)
        cosine_sim == tried.cos
        final_match ==
            RMul(RAdd(RAdd(RMul(skill_match_rate, Rat(match_weights.skill, 100)),
                           RMul(technical_match_rate, Rat(match_weights.technical, 100))),
                      RMul(cosine_sim, Rat(match_weights.cosine, 100))),
                 RInt(100))
    IN  [exc |-> tried.exc,
         match_percentage |-> Round2(final_match),
         matched_skills |-> sorted(matched_skills),
         missing_skills |-> sorted(missing_skills),
         matched_technical_skills |-> sorted(matched_technical),
         missing_technical_skills |-> sorted(missing_technical),
         cosine_similarity |-> Round2(RMul(cosine_sim, RInt(100)))]

get_match_interpretation(score) ==
    IF score >= 8000 THEN "Excellent Match"
    ELSE IF score >= 7000 THEN "Good Match"
    ELSE IF score >= 6000 THEN "Fair Match"
    ELSE IF score >= 5000 THEN "Moderate Match"
    ELSE "Low Match"

OneSkill == [tech |-> {Word(1)}, prog |-> {}, soft |-> {}, tools |-> {}]
NoneFound == [tech |-> {}, prog |-> {}, soft |-> {}, tools |-> {}]

MatchResumes ==
    {NoText} \cup {JobText(600, 600, k) : k \in SkillSamples}
    \cup {JobText(n, n, k) : n \in {10, 11}, k \in {NoneFound, OneSkill}}

MatchJobs ==
    {NoText} \cup {JobText(600, 600, k) : k \in JobSkillSamples}
    \cup {JobText(n, n, k) : n \in {10, 11}, k \in {NoneFound, OneSkill}}
    \cup {JobText(14, 3, OneSkill)}

TfidfRaises == [raises |-> TRUE, cos |-> RInt(0)]
TfidfOutcomes == {TfidfRaises} \cup {[raises |-> FALSE, cos |-> Rat(k, CosSteps)] : k \in 0..CosSteps}

InitMatch ==
    /\ DbEmpty /\ req = Idle /\ resp = NoResp
    /\ fnIn \in [text : MatchResumes, jd : MatchJobs, tfidf : TfidfOutcomes]
    /\ fnOut = <<>>

ScoreMatch ==
    /\ fnOut = <<>>
    /\ fnOut' = <<calculate_match_score(fnIn.text, fnIn.jd, fnIn.tfidf)>>
    /\ UNCHANGED <<dbVars, req, resp, fnIn>>

NextMatch == ScoreMatch

SpecMatch == InitMatch /\ [][NextMatch]_vars

\* what the TF-IDF step left in cosine_sim for the inputs drawn
UsedCosine ==
    IF fnIn.text.strip > 10 /\ fnIn.jd.strip > 10 /\ ~fnIn.tfidf.raises
    THEN fnIn.tfidf.cos ELSE Rat(1, 2)

\* C3: match_percentage is (0.40 skill_match_rate + 0.30 technical_match_rate
\* + 0.30 cosine similarity) * 100 rounded to two decimals, the two rates
\* being matched over required skills of the returned lists (0.5 where the
\* job requires none, the quotient being undefined there).
C3_MatchWeightedSum ==
    fnOut # <<>> =>
        LET r == fnOut[1]
            nAll == Len(r.matched_skills) + Len(r.missing_skills)
            nTech == Len(r.matched_technical_skills) + Len(r.missing_technical_skills)
            smr == IF nAll > 0 THEN Rat(Len(r.matched_skills), nAll) ELSE Rat(1, 2)
            tmr == IF nTech > 0 THEN Rat(Len(r.matched_technical_skills), nTech) ELSE Rat(1, 2)
            blend == RAdd(RAdd(RMul(Rat(40, 100), smr), RMul(Rat(30, 100), tmr)),
                          RMul(Rat(30, 100), UsedCosine))
        IN  r.match_percentage = Round2(RMul(blend, RInt(100)))

\* C3, witness: a job with technical and other skills, partly matched, the
\* two rates different, and a computed cosine similarity.
C3_Witness ==
    /\ fnOut # <<>>
    /\ ~fnIn.tfidf.raises /\ fnIn.text.strip > 10 /\ fnIn.jd.strip > 10
    /\ fnIn.tfidf.cos = Rat(1, CosSteps)
    /\ Len(fnOut[1].matched_skills) > Len(fnOut[1].matched_technical_skills)
    /\ Len(fnOut[1].matched_technical_skills) > 0
    /\ Len(fnOut[1].missing_skills) > 0
    /\ Len(fnOut[1].missing_technical_skills) > 0

\* C4: match_percentage lies between 0 and 100 inclusive, also when the job
\* description has no recognised skill and when the TF-IDF computation
\* raises or is skipped.
C4_MatchInRange ==
    fnOut # <<>> => fnOut[1].match_percentage \in 0..10000

\* C4, witness: no recognised job skill and a TF-IDF computation that raised.
C4_Witness ==
    /\ fnOut # <<>>
    /\ fnIn.jd.len # 0 /\ extract_skills(fnIn.jd).all_skills = <<>>
    /\ fnIn.text.strip > 10 /\ fnIn.jd.strip > 10 /\ fnIn.tfidf.raises
    /\ fnOut[1].match_percentage = 5000

\* ------------------------------------------------------------ ai_feedback.py

\* A call either returns a value or raises.
Return(v) == [exc |-> "none", value |-> v]
Raise(kind) == [exc |-> kind, value |-> [source |-> "none"]]

FeedbackKeys == {"ats_score", "missing_skills", "improvements", "rewritten_bullets", "recruiter_summary"}

\* The JSON value a provider's answer parses to: whether it is an object,
\* the keys it has, and whether improvements and rewritten_bullets are lists
\* of strings.
LlmJson(object, keys, typed) ==
    [source |-> "llm", object |-> object, keys |-> keys, typed |-> typed,
     ats_score |-> 0, missing_skills |-> <<>>, summary_skills |-> <<>>, summary_gaps |-> <<>>]

get_default_feedback(extracted_skills, missing_skills) ==
    [source |-> "default", object |-> TRUE, keys |-> FeedbackKeys, typed |-> TRUE,
     ats_score |-> 70,
     missing_skills |-> IF missing_skills # <<>> THEN Take(missing_skills, 10) ELSE <<>>,
     summary_skills |-> Take(extracted_skills, 5),
     summary_gaps |-> IF missing_skills # <<>> THEN Take(missing_skills, 3) ELSE <<>>]

\* json.loads of the text found in the answer
extract_json(answer) ==
    IF answer.parses THEN Return(answer.json) ELSE Raise("ValueError")

\* env: the process environment and what the provider's API does,
\*   [provider, openai_key, gemini_key, api_error, parses, json]
get_openai_feedback(env) ==
    IF ~env.openai_key THEN Raise("ValueError")
    ELSE IF env.api_error THEN Raise("Exception")
    ELSE extract_json(env)

get_gemini_feedback(env) ==
    IF ~env.gemini_key THEN Raise("ValueError")
    ELSE IF env.api_error THEN Raise("Exception")
    ELSE extract_json(env)

\* the try block of get_ai_feedback without its except clause
get_ai_feedback_unguarded(extracted_skills, missing_skills, env) ==
    IF env.provider = "openai" THEN get_openai_feedback(env)
    ELSE IF env.provider = "gemini" THEN get_gemini_feedback(env)
    ELSE Return(get_default_feedback(extracted_skills, missing_skills))

get_ai_feedback(extracted_skills, missing_skills, env) ==
    LET r == IF env.provider = "openai" THEN get_openai_feedback(env)
             ELSE IF env.provider = "gemini" THEN get_gemini_feedback(env)
             ELSE Return(get_default_feedback(extracted_skills, missing_skills))
    IN  IF r.exc # "none"
        THEN Return(get_default_feedback(extracted_skills, missing_skills))
        ELSE r

FullJson == LlmJson(TRUE, FeedbackKeys, TRUE)

JsonSamples ==
    {FullJson, LlmJson(FALSE, {}, FALSE), LlmJson(TRUE, FeedbackKeys, FALSE)}
    \cup {LlmJson(TRUE, FeedbackKeys \ {k}, TRUE) : k \in FeedbackKeys}

AiEnvs ==
    { [provider |-> p, openai_key |-> ok, gemini_key |-> gk, api_error |-> e,
       parses |-> TRUE, json |-> j] :
        p \in {"openai", "gemini", "none"}, ok \in BOOLEAN, gk \in BOOLEAN,
        e \in BOOLEAN, j \in {FullJson} }
    \cup
    { [provider |-> p, openai_key |-> TRUE, gemini_key |-> TRUE, api_error |-> FALSE,
       parses |-> ps, json |-> j] :
        p \in {"openai", "gemini", "none"}, ps \in BOOLEAN, j \in JsonSamples }

\* whether the selected provider's call fails in env
ProviderFails(env) ==
    \/ env.provider = "openai" /\ (~env.openai_key \/ env.api_error \/ ~env.parses)
    \/ env.provider = "gemini" /\ (~env.gemini_key \/ env.api_error \/ ~env.parses)

SkillLists == {sorted({title(s) : s \in S}) : S \in {{}, SOFT_SKILLS, TECHNICAL_SKILLS}}
MissingLists == {sorted(S) : S \in {{}, SOFT_SKILLS, {Word(1), Word(2), Word(3), Word(4)}, TECHNICAL_SKILLS}}

InitFeedback ==
    /\ DbEmpty /\ req = Idle /\ resp = NoResp
    /\ fnIn \in [extracted_skills : SkillLists, missing_skills : MissingLists, env : AiEnvs]
    /\ fnOut = <<>>

CallFeedback ==
    /\ fnOut = <<>>
    /\ fnOut' = <<get_ai_feedback(fnIn.extracted_skills, fnIn.missing_skills, fnIn.env)>>
    /\ UNCHANGED <<dbVars, req, resp, fnIn>>

NextFeedback == CallFeedback

SpecFeedback == InitFeedback /\ [][NextFeedback]_vars

\* C5: get_ai_feedback never raises, and when the selected provider's call
\* fails (no API key, API error, unparseable answer) or the provider is
\* neither openai nor gemini it returns the fallback template: ats_score 70,
\* the first 10 missing skills, and a summary naming the first 5 extracted
\* and the first 3 missing skills.
C5_FeedbackFallsBack ==
    fnOut # <<>> =>
        /\ fnOut[1].exc = "none"
        /\ (ProviderFails(fnIn.env) \/ fnIn.env.provider \notin {"openai", "gemini"}) =>
              LET v == fnOut[1].value
                  k10 == IF Len(fnIn.missing_skills) < 10 THEN Len(fnIn.missing_skills) ELSE 10
                  k5 == IF Len(fnIn.extracted_skills) < 5 THEN Len(fnIn.extracted_skills) ELSE 5
                  k3 == IF Len(fnIn.missing_skills) < 3 THEN Len(fnIn.missing_skills) ELSE 3
              IN  /\ v.source = "default" /\ v.ats_score = 70
                  /\ v.keys = FeedbackKeys /\ v.typed /\ v.object
                  /\ v.missing_skills = [i \in 1..k10 |-> fnIn.missing_skills[i]]
                  /\ v.summary_skills = [i \in 1..k5 |-> fnIn.extracted_skills[i]]
                  /\ v.summary_gaps = [i \in 1..k3 |-> fnIn.missing_skills[i]]

\* C5, witness: the gemini call got an answer that does not parse, with more
\* than 10 missing and more than 5 extracted skills, and the template came back.
C5_Witness ==
    /\ fnOut # <<>>
    /\ fnIn.env.provider = "gemini" /\ fnIn.env.gemini_key /\ ~fnIn.env.api_error
    /\ ~fnIn.env.parses
    /\ Len(fnIn.missing_skills) > 10 /\ Len(fnIn.extracted_skills) > 5
    /\ fnOut[1].exc = "none" /\ fnOut[1].value.source = "default"

\* -------------------------------------------------------------- pdf_parser.py

\* What an extraction library does with a file: it raises, or it yields a text.
Yields(t) == [raises |-> FALSE, text |-> t]
Fails == [raises |-> TRUE, text |-> NoText]

\* str.strip(): the text without its leading and trailing whitespace
strip(t) == [t EXCEPT !.len = t.strip]

extract_text_with_pdfplumber(file_content) ==
    IF file_content.plumber.raises THEN NoText ELSE strip(file_content.plumber.text)

extract_text_with_pymupdf(file_content) ==
    IF file_content.mupdf.raises THEN NoText ELSE strip(file_content.mupdf.text)

MinPlumberText == 50

\* "if not text or len(text) < 50": pdfplumber's text is not taken
always_fallback(text) == TRUE
needs_fallback(text) == text.len = 0 \/ text.len < MinPlumberText

\* What parse_pdf ends with: the exception it raises ("none" when it
\* returns), its message, the text returned, and the extractors it called.
parse_pdf_unchecked(file_content) ==
    LET first == extract_text_with_pdfplumber(file_content)
    IN  IF needs_fallback(first)
        THEN [exc |-> "none", detail |-> "", value |-> extract_text_with_pymupdf(file_content),
              calls |-> <<"pdfplumber", "pymupdf">>]
        ELSE [exc |-> "none", detail |-> "", value |-> first, calls |-> <<"pdfplumber">>]

parse_pdf(file_content) ==
    IF file_content.size = 0
    THEN [exc |-> "ValueError", detail |-> "Empty PDF file provided", value |-> NoText, calls |-> <<>>]
    ELSE LET first == extract_text_with_pdfplumber(file_content)
             fallback == needs_fallback(first)
             text == IF fallback THEN extract_text_with_pymupdf(file_content) ELSE first
             calls == IF fallback THEN <<"pdfplumber", "pymupdf">> ELSE <<"pdfplumber">>
         IN  IF text.len = 0
             THEN [exc |-> "ValueError", detail |-> "Could not extract text from PDF",
                   value |-> NoText, calls |-> calls]
             ELSE [exc |-> "none", detail |-> "", value |-> text, calls |-> calls]

\* clean_text removes text.junk characters (control characters, repeated
\* whitespace, other punctuation) and cuts the rest at 1,000,000
clean_text(text) ==
    IF text.len = 0 THEN NoText
    ELSE LET n == Min(text.len - text.junk, 1000000)
         IN  IF n = 0 THEN NoText ELSE [text EXCEPT !.len = n, !.strip = n, !.junk = 0]

\* ------------------------------------------------------------- sampled files

RawA ==
    WithSkills([len |-> 3000, strip |-> 3000, junk |-> 200, sections |-> 6, nouns |-> 40,
                verbs |-> 9, numbers |-> 5, expkw |-> 4, email |-> TRUE, phone |-> TRUE,
                dates |-> TRUE, bullets |-> TRUE, words |-> 450,
                tech |-> {}, prog |-> {}, soft |-> {}, tools |-> {}],
               [tech |-> {Word(1), Word(2)}, prog |-> {}, soft |-> {Word(NTech + 2)}, tools |-> TOOLS])
RawB ==
    WithSkills([len |-> 100, strip |-> 100, junk |-> 0, sections |-> 2, nouns |-> 12,
                verbs |-> 1, numbers |-> 2, expkw |-> 1, email |-> TRUE, phone |-> FALSE,
                dates |-> FALSE, bullets |-> TRUE, words |-> 16,
                tech |-> {}, prog |-> {}, soft |-> {}, tools |-> {}],
               [tech |-> {Word(2), Word(3)}, prog |-> {}, soft |-> {}, tools |-> {}])
RawShort == [RawB EXCEPT !.len = 120, !.strip = 120, !.junk = 21]
RawTiny == [RawB EXCEPT !.len = 30, !.strip = 30, !.words = 5]
RawC == [RawA EXCEPT !.sections = 2]

MaxUploadBytes == 10485760

PdfContents ==
    { [size |-> 5000, plumber |-> Yields(RawA), mupdf |-> Yields(RawA)],
      [size |-> MaxUploadBytes, plumber |-> Yields(RawTiny), mupdf |-> Yields(RawB)],
      [size |-> 5000, plumber |-> Yields(RawShort), mupdf |-> Yields(RawA)],
      [size |-> 5000, plumber |-> Yields(RawC), mupdf |-> Fails],
      [size |-> 5000, plumber |-> Yields(RawTiny), mupdf |-> Fails],
      [size |-> 5000, plumber |-> Fails, mupdf |-> Fails],
      [size |-> 0, plumber |-> Fails, mupdf |-> Fails],
      [size |-> MaxUploadBytes + 1, plumber |-> Yields(RawA), mupdf |-> Yields(RawA)] }

\* an uploaded file: the extension of its name, its size and its content
Files ==
    { [ext |-> ".pdf", size |-> c.size, plumber |-> c.plumber, mupdf |-> c.mupdf] : c \in PdfContents }
    \cup
    { [ext |-> ".docx", size |-> c.size, plumber |-> c.plumber, mupdf |-> c.mupdf] :
        c \in {x \in PdfContents : x.plumber = Yields(RawA)} }

\* an unexpected exception in the handler: at file.read(), in skill
\* extraction or scoring, or at db.commit()
Faults == {"none", "read", "analysis", "commit"}

\* ------------------------------------------------------------------ models.py

\* relationship(..., cascade="all, delete-orphan"): the rows a session deletes
\* together with the parent rows it is asked to delete
no_job_matches(resume_ids) == {}
resumes_of_users(user_ids) == {r \in resumes : r.user_id \in user_ids}
job_matches_of_resumes(resume_ids) == {m \in job_matches : m.resume_id \in resume_ids}
job_matches_of_jobs(job_ids) == {m \in job_matches : m.job_id \in job_ids}

\* ------------------------------------------------------------------ resume.py

Http(status, detail) == [status |-> status, detail |-> detail, body |-> [kind |-> "none"]]
Ok(body) == [status |-> 200, detail |-> "", body |-> body]

MinResumeText == 100

\* What the try block of upload_resume ends with: the exception it raises
\* ("none" when it returns), the HTTP status and detail the exception
\* carries, the cleaned text, and whether db.commit() stored the row.
TryResult(exc, status, detail, text, stored) ==
    [exc |-> exc, status |-> status, detail |-> detail, text |-> text, stored |-> stored]

upload_try_commit_first(file, fault) ==
    IF file.size > MaxUploadBytes
    THEN TryResult("HTTPException", 413, "File too large. Maximum size is 10MB.", NoText, FALSE)
    ELSE IF fault = "read" THEN TryResult("Exception", 0, "read", NoText, FALSE)
    ELSE LET raw_text == parse_pdf(file)
         IN  IF raw_text.exc # "none"
             THEN TryResult("ValueError", 0, raw_text.detail, NoText, FALSE)
             ELSE LET cleaned_text == clean_text(raw_text.value)
                  IN  IF cleaned_text.len < MinResumeText
                      THEN TryResult("HTTPException", 400, "Resume text is too short. Please upload a complete resume.", cleaned_text, TRUE)
                      ELSE IF fault \in {"analysis", "commit"}
                      THEN TryResult("Exception", 0, fault, NoText, FALSE)
                      ELSE TryResult("none", 200, "", cleaned_text, TRUE)

upload_try(file, fault) ==
    IF file.size > MaxUploadBytes
    THEN TryResult("HTTPException", 413, "File too large. Maximum size is 10MB.", NoText, FALSE)
    ELSE IF fault = "read" THEN TryResult("Exception", 0, "read", NoText, FALSE)
    ELSE LET raw_text == parse_pdf(file)
         IN  IF raw_text.exc # "none"
             THEN TryResult("ValueError", 0, raw_text.detail, NoText, FALSE)
             ELSE LET cleaned_text == clean_text(raw_text.value)
                  IN  IF cleaned_text.len < MinResumeText
                      THEN TryResult("HTTPException", 400, "Resume text is too short. Please upload a complete resume.", NoText, FALSE)
                      ELSE IF fault \in {"analysis", "commit"}
                      THEN TryResult("Exception", 0, fault, NoText, FALSE)
                      ELSE TryResult("none", 200, "", cleaned_text, TRUE)

\* the except clauses of upload_resume, in their order
upload_except_no_reraise(r) ==
    IF r.exc = "none" THEN r
    ELSE IF r.exc = "ValueError" THEN [r EXCEPT !.status = 400]
    ELSE [r EXCEPT !.status = 500, !.detail = "Error processing resume. Please ensure the PDF is valid and contains readable text."]

upload_except(r) ==
    IF r.exc = "none" THEN r
    ELSE IF r.exc = "ValueError" THEN [r EXCEPT !.status = 400]
    ELSE IF r.exc = "HTTPException" THEN r
    ELSE [r EXCEPT !.status = 500, !.detail = "Error processing resume. Please ensure the PDF is valid and contains readable text."]

\* the whole handler but for the database: the type check, then the try block
upload_outcome(file, fault) ==
    IF file.ext # ".pdf"
    THEN TryResult("HTTPException", 400, "Only PDF files are allowed", NoText, FALSE)
    ELSE upload_except(upload_try(file, fault))

\* the row upload_resume and analyze_resume compute from a cleaned text
Analysis(text) ==
    LET skills_data == extract_skills(text)
        ats_result == calculate_ats_score(text, NoText)
    IN  [extracted_skills |-> skills_data.all_skills,
         technical_skills |-> skills_data.technical_skills,
         soft_skills |-> skills_data.soft_skills,
         tools |-> skills_data.tools,
         ats_score |-> ats_result.overall_score]

ResumeRow(id, user_id, ext, text) ==
    LET a == Analysis(text)
    IN  [id |-> id, user_id |-> user_id, filename |-> ext, raw_text |-> text,
         extracted_skills |-> a.extracted_skills, technical_skills |-> a.technical_skills,
         soft_skills |-> a.soft_skills, tools |-> a.tools, ats_score |-> a.ats_score,
         created_at |-> id]

\* db.query(Resume).filter(Resume.id == resume_id, Resume.user_id == current_user.id)
any_users_resumes(user_id, resume_id) ==
    {r \in resumes : r.id = resume_id}
owned_resumes(user_id, resume_id) ==
    {r \in resumes : r.id = resume_id /\ r.user_id = user_id}

NotFound == Http(404, "Resume not found")

ResumeIds == 1..(MaxResumes + 1)

upload_resume(u, file, fault) ==
    LET r == upload_outcome(file, fault)
        new_resume == ResumeRow(nextId.resumes, u.id, file.ext, r.text)
    IN  /\ nextId.resumes <= MaxResumes
        /\ req' = [op |-> "upload_resume", user |-> u.id, file |-> file, fault |-> fault]
        /\ IF r.stored
           THEN /\ resumes' = resumes \cup {new_resume}
                /\ nextId' = [nextId EXCEPT !.resumes = @ + 1]
           ELSE UNCHANGED <<resumes, nextId>>
        /\ resp' = IF r.exc = "none" THEN Ok([kind |-> "resume", resume |-> new_resume])
                   ELSE Http(r.status, r.detail)
        /\ UNCHANGED <<users, jobs, job_matches, fnIn, fnOut>>

get_user_resumes(u) ==
    /\ req' = [op |-> "get_user_resumes", user |-> u.id]
    /\ resp' = Ok([kind |-> "resumes", resumes |-> {r \in resumes : r.user_id = u.id}])
    /\ UNCHANGED <<dbVars, fnIn, fnOut>>

get_resume(u, resume_id) ==
    LET found == owned_resumes(u.id, resume_id)
    IN  /\ req' = [op |-> "get_resume", user |-> u.id, resume_id |-> resume_id]
        /\ resp' = IF found = {} THEN NotFound
                   ELSE Ok([kind |-> "resume", resume |-> CHOOSE r \in found : TRUE])
        /\ UNCHANGED <<dbVars, fnIn, fnOut>>

\* lines 153-162 of analyze_resume: the row with its five analysis columns
\* recomputed from its raw_text
reanalysed_as_new(resume) == ResumeRow(resume.id, resume.user_id, resume.filename, NoText)
reanalysed(resume) ==
    LET a == Analysis(resume.raw_text)
    IN  [resume EXCEPT !.extracted_skills = a.extracted_skills,
                       !.technical_skills = a.technical_skills,
                       !.soft_skills = a.soft_skills,
                       !.tools = a.tools,
                       !.ats_score = a.ats_score]

analyze_resume(u, resume_id) ==
    LET found == owned_resumes(u.id, resume_id)
    IN  /\ req' = [op |-> "analyze_resume", user |-> u.id, resume_id |-> resume_id]
        /\ IF found = {}
           THEN /\ resp' = NotFound
                /\ UNCHANGED resumes
           ELSE LET resume == CHOOSE r \in found : TRUE
                    updated == reanalysed(resume)
                IN  /\ resumes' = (resumes \ {resume}) \cup {updated}
                    /\ resp' = Ok([kind |-> "analysis", resume |-> updated,
                                   ats_breakdown |-> calculate_ats_score(resume.raw_text, NoText)])
        /\ UNCHANGED <<users, jobs, job_matches, nextId, fnIn, fnOut>>

delete_resume(u, resume_id) ==
    LET found == owned_resumes(u.id, resume_id)
    IN  /\ req' = [op |-> "delete_resume", user |-> u.id, resume_id |-> resume_id]
        /\ IF found = {}
           THEN /\ resp' = NotFound
                /\ UNCHANGED <<resumes, job_matches>>
           ELSE /\ resumes' = resumes \ found
                /\ job_matches' = job_matches \ job_matches_of_resumes({resume_id})
                /\ resp' = Ok([kind |-> "message", message |-> "Resume deleted successfully"])
        /\ UNCHANGED <<users, jobs, nextId, fnIn, fnOut>>

\* -------------------------------------------------------------------- jobs.py

MinJobDescription == 10
MaxJobDescription == 50000

\* JobMatchRequest: resume_id > 0, 10 <= len(job_description) <= 50000
valid_match_request(match_request) ==
    /\ match_request.resume_id > 0
    /\ match_request.job_description.len >= MinJobDescription
    /\ match_request.job_description.len <= MaxJobDescription

RequiredFeedbackKeys == {"ats_score", "improvements", "rewritten_bullets", "recruiter_summary"}

\* whether the f-string of lines 92-103 can be built from the AI feedback
formattable(v) ==
    v.object /\ v.typed /\ RequiredFeedbackKeys \subseteq v.keys

\* the text of lines 106-113
fallback_text(match_result) ==
    [kind |-> "fallback",
     interpretation |-> get_match_interpretation(match_result.match_percentage),
     matched_technical |-> Len(match_result.matched_technical_skills),
     missing_technical |-> Len(match_result.missing_technical_skills),
     focus |-> Take(match_result.missing_technical_skills, 5)]

\* the inner try of match_job without its except clause
feedback_text_uncaught(ai, match_result) ==
    IF ai.exc # "none" THEN [exc |-> ai.exc, text |-> [kind |-> "none"]]
    ELSE IF ~formattable(ai.value) THEN [exc |-> "KeyError", text |-> [kind |-> "none"]]
    ELSE [exc |-> "none",
          text |-> [kind |-> "ai", source |-> ai.value.source, ats_score |-> ai.value.ats_score]]

\* the inner try of match_job: the text built from the AI feedback, or, when
\* get_ai_feedback raises or its result cannot be formatted, the fallback
feedback_text(ai, match_result) ==
    IF ai.exc = "none" /\ formattable(ai.value)
    THEN [exc |-> "none",
          text |-> [kind |-> "ai", source |-> ai.value.source, ats_score |-> ai.value.ats_score]]
    ELSE [exc |-> "none", text |-> fallback_text(match_result)]

\* the outer try block of match_job
match_try(resume, match_request, tfidf, env) ==
    IF match_request.job_description.strip < MinJobDescription
    THEN [exc |-> "HTTPException", status |-> 400,
          detail |-> "Job description is too short. Minimum 10 characters required.",
          body |-> [kind |-> "none"]]
    ELSE LET match_result == calculate_match_score(resume.raw_text, match_request.job_description, tfidf)
             ai_feedback == get_ai_feedback(resume.extracted_skills, match_result.missing_skills, env)
             text == feedback_text(ai_feedback, match_result)
         IN  IF text.exc # "none"
             THEN [exc |-> text.exc, status |-> 0, detail |-> text.exc, body |-> [kind |-> "none"]]
             ELSE [exc |-> "none", status |-> 200, detail |-> "",
                   body |-> [kind |-> "match",
                             match_percentage |-> match_result.match_percentage,
                             missing_skills |-> match_result.missing_skills,
                             matched_skills |-> match_result.matched_skills,
                             ai_feedback |-> text.text]]

\* the except clause of match_job: "except Exception" also catches HTTPException
match_except(r) ==
    IF r.exc = "none" THEN r
    ELSE [r EXCEPT !.status = 500, !.detail = "Error matching job"]

TfidfNotRun == TfidfRaises

ApiTfidf == {TfidfRaises, [raises |-> FALSE, cos |-> Rat(1, CosSteps)]}

EnvNotUsed ==
    [provider |-> "none", openai_key |-> FALSE, gemini_key |-> FALSE, api_error |-> FALSE,
     parses |-> TRUE, json |-> FullJson]

ApiAiEnvs ==
    { EnvNotUsed,
      [EnvNotUsed EXCEPT !.provider = "gemini"],
      [EnvNotUsed EXCEPT !.provider = "gemini", !.gemini_key = TRUE],
      [EnvNotUsed EXCEPT !.provider = "gemini", !.gemini_key = TRUE,
                         !.json = LlmJson(TRUE, FeedbackKeys \ {"improvements"}, TRUE)],
      [EnvNotUsed EXCEPT !.provider = "openai", !.openai_key = TRUE,
                         !.json = LlmJson(TRUE, FeedbackKeys, FALSE)],
      [EnvNotUsed EXCEPT !.provider = "openai", !.openai_key = TRUE,
                         !.json = LlmJson(TRUE, FeedbackKeys \ {"missing_skills"}, TRUE)] }

JobDescriptions ==
    { JobText(5, 5, NoneFound),
      JobText(14, 3, OneSkill),
      JobText(600, 600, OneSkill),
      JobText(600, 600, [tech |-> {Word(1), Word(2), Word(3)}, prog |-> {}, soft |-> SOFT_SKILLS, tools |-> {}]) }

match_job(u, match_request, tfidf, env) ==
    LET found == owned_resumes(u.id, match_request.resume_id)
        reached == /\ valid_match_request(match_request)
                   /\ found # {}
                   /\ match_request.job_description.strip >= MinJobDescription
    IN  /\ ~reached => tfidf = TfidfNotRun /\ env = EnvNotUsed
        /\ req' = [op |-> "match_job", user |-> u.id, resume_id |-> match_request.resume_id,
                   job_description |-> match_request.job_description,
                   tfidf |-> tfidf, env |-> env]
        /\ resp' = IF ~valid_match_request(match_request) THEN Http(422, "validation error")
                   ELSE IF found = {} THEN NotFound
                   ELSE LET r == match_except(match_try(CHOOSE x \in found : TRUE, match_request, tfidf, env))
                        IN  [status |-> r.status, detail |-> r.detail, body |-> r.body]
        /\ UNCHANGED <<dbVars, fnIn, fnOut>>

\* db.query(JobMatch).filter(JobMatch.resume_id == resume_id).all()
placeholder_matches(resume_id) == {[id |-> 1, resume_id |-> resume_id, job_id |-> 1]}
resume_matches(resume_id) == {m \in job_matches : m.resume_id = resume_id}

get_resume_matches(u, resume_id) ==
    LET found == owned_resumes(u.id, resume_id)
        matches == resume_matches(resume_id)
    IN  /\ req' = [op |-> "get_resume_matches", user |-> u.id, resume_id |-> resume_id]
        /\ resp' = IF found = {} THEN NotFound
                   ELSE Ok([kind |-> "matches", resume_id |-> resume_id,
                            total_matches |-> Cardinality(matches), matches |-> matches])
        /\ UNCHANGED <<dbVars, fnIn, fnOut>>

\* JobCreate: 1 <= len(title) <= 500, 10 <= len(description) <= 50000
JobDatas ==
    { [title |-> "Backend Developer", description |-> d, required_skills |-> <<>>] :
        d \in {JobText(5, 5, NoneFound), JobText(600, 600, OneSkill)} }

create_job(u, job_data) ==
    /\ nextId.jobs <= MaxJobs
    /\ req' = [op |-> "create_job", user |-> u.id, job_data |-> job_data]
    /\ IF job_data.description.len >= MinJobDescription /\ job_data.description.len <= MaxJobDescription
       THEN LET new_job == [id |-> nextId.jobs, title |-> job_data.title,
                            description |-> job_data.description,
                            required_skills |-> job_data.required_skills]
            IN  /\ jobs' = jobs \cup {new_job}
                /\ nextId' = [nextId EXCEPT !.jobs = @ + 1]
                /\ resp' = Ok([kind |-> "job", job |-> new_job])
       ELSE /\ resp' = Http(422, "validation error")
            /\ UNCHANGED <<jobs, nextId>>
    /\ UNCHANGED <<users, resumes, job_matches, fnIn, fnOut>>

get_jobs(u) ==
    /\ req' = [op |-> "get_jobs", user |-> u.id]
    /\ resp' = Ok([kind |-> "jobs", jobs |-> jobs])
    /\ UNCHANGED <<dbVars, fnIn, fnOut>>

\* -------------------------------------------------------------------- main.py

Emails == {"ann@example.com", "bob@example.com"}

register(email) ==
    /\ req' = [op |-> "register", email |-> email]
    /\ IF \E x \in users : x.email = email
       THEN /\ resp' = Http(400, "Email already registered")
            /\ UNCHANGED <<users, nextId>>
       ELSE LET new_user == [id |-> nextId.users, email |-> email]
            IN  /\ users' = users \cup {new_user}
                /\ nextId' = [nextId EXCEPT !.users = @ + 1]
                /\ resp' = [status |-> 201, detail |-> "", body |-> [kind |-> "user", user |-> new_user]]
    /\ UNCHANGED <<resumes, jobs, job_matches, fnIn, fnOut>>

RECURSIVE SumAts(_)
SumAts(S) ==
    IF S = {} THEN 0
    ELSE LET r == CHOOSE x \in S : TRUE IN r.ats_score + SumAts(S \ {r})

\* .filter(Resume.user_id == current_user.id)
all_rows(u) == resumes
dashboard_rows(u) == {r \in resumes : r.user_id = u.id}

\* round(float(stats.avg_score or 0), 2), in hundredths.  A mean half-way
\* between two hundredths is not a float: the float next to it is rounded to
\* the lower (up = 0) or the upper (up = 1) of the two.
avg_ats_score(S, up) ==
    IF S = {} THEN 0
    ELSE LET n == Cardinality(S)
             q == SumAts(S) \div n
             rem2 == 2 * (SumAts(S) % n)
         IN  IF rem2 < n THEN q ELSE IF rem2 > n THEN q + 1 ELSE q + up

get_dashboard(u, up) ==
    LET mine == dashboard_rows(u)
        latest_resume == IF mine = {} THEN <<>>
                         ELSE <<CHOOSE r \in mine : \A x \in mine : x.created_at <= r.created_at>>
        tie == mine # {} /\ 2 * (SumAts(mine) % Cardinality(mine)) = Cardinality(mine)
    IN  /\ ~tie => up = 0
        /\ req' = [op |-> "get_dashboard", user |-> u.id, up |-> up]
        /\ resp' = Ok([kind |-> "dashboard", user |-> u, latest_resume |-> latest_resume,
                       total_resumes |-> Cardinality(mine),
                       average_ats_score |-> avg_ats_score(mine, up),
                       recent_matches |-> <<>>])
        /\ UNCHANGED <<dbVars, fnIn, fnOut>>

\* ------------------------------------------------- specification: the API

\* The database after init_db(): the tables exist and are empty.
Init ==
    /\ DbEmpty /\ req = Idle /\ resp = NoResp
    /\ fnIn = <<>> /\ fnOut = <<>>

\* A request is handled when no other is being answered (the handlers run
\* one at a time on one database); current_user is the row get_current_user
\* finds for the request's token.
Register == req.op = "none" /\ \E email \in Emails : register(email)
UploadResume ==
    req.op = "none" /\ \E u \in users, file \in Files, fault \in Faults : upload_resume(u, file, fault)
GetUserResumes == req.op = "none" /\ \E u \in users : get_user_resumes(u)
GetResume == req.op = "none" /\ \E u \in users, id \in ResumeIds : get_resume(u, id)
AnalyzeResume == req.op = "none" /\ \E u \in users, id \in ResumeIds : analyze_resume(u, id)
DeleteResume == req.op = "none" /\ \E u \in users, id \in ResumeIds : delete_resume(u, id)
MatchJob ==
    /\ req.op = "none"
    /\ \E u \in users, id \in 0..(MaxResumes + 1), jd \in JobDescriptions,
          tfidf \in ApiTfidf, env \in ApiAiEnvs :
           match_job(u, [resume_id |-> id, job_description |-> jd], tfidf, env)
GetResumeMatches == req.op = "none" /\ \E u \in users, id \in ResumeIds : get_resume_matches(u, id)
CreateJob == req.op = "none" /\ \E u \in users, job_data \in JobDatas : create_job(u, job_data)
GetJobs == req.op = "none" /\ \E u \in users : get_jobs(u)
GetDashboard == req.op = "none" /\ \E u \in users, up \in {0, 1} : get_dashboard(u, up)

\* the response is sent and the request is over
Respond ==
    /\ req.op # "none"
    /\ req' = Idle /\ resp' = NoResp
    /\ UNCHANGED <<dbVars, fnIn, fnOut>>

Next ==
    \/ Register
    \/ UploadResume
    \/ GetUserResumes
    \/ GetResume
    \/ AnalyzeResume
    \/ DeleteResume
    \/ MatchJob
    \/ GetResumeMatches
    \/ CreateJob
    \/ GetJobs
    \/ GetDashboard
    \/ Respond

Spec == Init /\ [][Next]_vars

\* ---------------------------------------------------------- claims on the API

\* the resume a request names, as the caller's own
Owned == owned_resumes(req.user, req.resume_id)

\* the match_job request passed the schema and the 10-character check
ValidJobDescription ==
    /\ req.resume_id > 0
    /\ req.job_description.len >= 10 /\ req.job_description.len <= 50000
    /\ req.job_description.strip >= 10

\* what the provider selected in env hands to match_job, when its call succeeds
LlmAnswered(env) ==
    env.provider \in {"openai", "gemini"} /\ ~ProviderFails(env)

\* C6: for an owned resume and a valid job description match_job answers 200
\* with a feedback text whatever the LLM step does; when the AI feedback
\* lacks one of ats_score, improvements, rewritten_bullets, recruiter_summary
\* (or cannot be formatted) the text is the match-interpretation fallback;
\* match_percentage, matched_skills and missing_skills are the matcher's.
C6_MatchJobAlwaysAnswers ==
    (req.op = "match_job" /\ Owned # {} /\ ValidJobDescription) =>
        LET resume == CHOOSE r \in Owned : TRUE
            m == calculate_match_score(resume.raw_text, req.job_description, req.tfidf)
            mine == {lower(x) : x \in Range(resume.extracted_skills)}
            wanted == {lower(x) : x \in Range(extract_skills(req.job_description).all_skills)}
            b == resp.body
            lacking == \/ ~(RequiredFeedbackKeys \subseteq req.env.json.keys)
                       \/ ~req.env.json.typed
        IN  /\ resp.status = 200 /\ b.kind = "match"
            /\ b.ai_feedback.kind \in {"ai", "fallback"}
            /\ (LlmAnswered(req.env) /\ lacking) =>
                  /\ b.ai_feedback.kind = "fallback"
                  /\ b.ai_feedback.interpretation = get_match_interpretation(b.match_percentage)
                  /\ b.ai_feedback.focus = m.missing_technical_skills
            /\ (LlmAnswered(req.env) /\ ~lacking) =>
                  b.ai_feedback.kind = "ai" /\ b.ai_feedback.source = "llm"
            /\ ~LlmAnswered(req.env) =>
                  b.ai_feedback.kind = "ai" /\ b.ai_feedback.source = "default"
            /\ b.match_percentage = m.match_percentage
            /\ Range(b.matched_skills) = mine \cap wanted
            /\ Range(b.missing_skills) = wanted \ mine

\* C6, witness: the provider answered with JSON that has no "improvements"
\* key, and match_job answered 200 with the fallback text and a missing skill.
C6_Witness ==
    /\ req.op = "match_job" /\ Owned # {} /\ ValidJobDescription
    /\ LlmAnswered(req.env) /\ "improvements" \notin req.env.json.keys
    /\ resp.status = 200 /\ resp.body.ai_feedback.kind = "fallback"
    /\ resp.body.missing_skills # <<>> /\ resp.body.matched_skills # <<>>

\* C7: a job description of fewer than 10 characters after stripping is
\* rejected by match_job with HTTP 400 and the detail "Job description is
\* too short. Minimum 10 characters required."  (Stated for a request that
\* passed the schema and names a resume of the caller.)
C7_ShortJobDescriptionIs400 ==
    (/\ req.op = "match_job" /\ Owned # {}
     /\ req.job_description.len >= 10 /\ req.job_description.strip < 10) =>
        /\ resp.status = 400
        /\ resp.detail = "Job description is too short. Minimum 10 characters required."

\* the outcome of parse_pdf and clean_text for the uploaded file
UploadParsed == parse_pdf(req.file)
UploadCleaned == clean_text(UploadParsed.value)

\* C8: upload_resume answers 400 to a name not ending in .pdf, 413 to more
\* than 10 MB, 400 to a ValueError of parse_pdf (with its message), 400 to a
\* cleaned text under 100 characters, and 500 only to another, unexpected
\* error; no HTTPException raised in the try block becomes a 500.
C8_UploadStatusCodes ==
    req.op = "upload_resume" =>
        LET f == req.file
            sized == f.ext = ".pdf" /\ f.size <= 10 * 1024 * 1024
            parsed == sized /\ req.fault # "read" /\ UploadParsed.exc = "none"
        IN  /\ f.ext # ".pdf" =>
                (resp.status = 400 /\ resp.detail = "Only PDF files are allowed")
            /\ (f.ext = ".pdf" /\ f.size > 10 * 1024 * 1024) =>
                (resp.status = 413 /\ resp.detail = "File too large. Maximum size is 10MB.")
            /\ (sized /\ req.fault # "read" /\ UploadParsed.exc = "ValueError") =>
                (resp.status = 400 /\ resp.detail = UploadParsed.detail)
            /\ (parsed /\ UploadCleaned.len < 100) =>
                (resp.status = 400
                 /\ resp.detail = "Resume text is too short. Please upload a complete resume.")
            /\ resp.status = 500 <=>
                (sized /\ (req.fault = "read"
                           \/ (parsed /\ UploadCleaned.len >= 100 /\ req.fault # "none")))
            /\ resp.status \in {200, 400, 413, 500}

\* C8, witness: a PDF of more than 10 MB was answered 413, although reading
\* it would have failed too.
C8_Witness ==
    /\ req.op = "upload_resume" /\ req.file.ext = ".pdf"
    /\ req.file.size > 10 * 1024 * 1024 /\ req.fault = "read"
    /\ resp.status = 413

ResumeOps == {"get_resume", "analyze_resume", "delete_resume", "match_job", "get_resume_matches"}

\* C10: a resume is served only to its owner: get_resume, analyze_resume,
\* delete_resume, match_job and get_resume_matches answer 404 "Resume not
\* found" and change nothing when the id is another user's or no resume's,
\* answer 200 only for a resume of the caller, and get_user_resumes returns
\* exactly the caller's resumes.  (match_job: for a request that passed the
\* schema.)
C10_OnlyOwnerSeesResume ==
    [][req.op = "none" =>
          /\ (/\ req'.op \in ResumeOps
              /\ req'.op = "match_job" =>
                    (req'.resume_id > 0 /\ req'.job_description.len >= 10)
              /\ ~\E r \in resumes : r.id = req'.resume_id /\ r.user_id = req'.user) =>
                 /\ resp'.status = 404 /\ resp'.detail = "Resume not found"
                 /\ UNCHANGED dbVars
          /\ (req'.op \in ResumeOps /\ resp'.status = 200) =>
                 \E r \in resumes : r.id = req'.resume_id /\ r.user_id = req'.user
          /\ (req'.op = "get_resume" /\ resp'.status = 200) =>
                 resp'.body.resume.user_id = req'.user
          /\ req'.op = "get_user_resumes" =>
                 /\ \A r \in resp'.body.resumes : r.user_id = req'.user
                 /\ \A r \in resumes : r.user_id = req'.user => r \in resp'.body.resumes]_vars

\* C10, witness: a user asked to delete another user's resume, was answered
\* 404, and the resume is still stored.
C10_Witness ==
    /\ req.op = "delete_resume" /\ resp.status = 404
    /\ \E r \in resumes : r.id = req.resume_id /\ r.user_id # req.user

\* C10, witness of the listing: two users own a resume each and one lists.
C10_ListWitness ==
    /\ req.op = "get_user_resumes"
    /\ Cardinality(resp.body.resumes) = 1 /\ Cardinality(resumes) = 2

\* ------------------------------------------- specification: the data model

\* The four tables under the operations a session offers on them: a row is
\* added with the foreign keys of an existing parent (a Resume for a User, a
\* JobMatch for a Resume and a Job), and db.delete(row) deletes the row with
\* the children its relationships cascade to.  req records the last
\* operation and how many rows went with it.

StoredText == clean_text(RawA)

InitModels ==
    /\ DbEmpty /\ req = Idle /\ resp = NoResp
    /\ fnIn = <<>> /\ fnOut = <<>>

AddUser ==
    /\ nextId.users <= MaxUsers
    /\ \E email \in Emails :
          /\ ~\E x \in users : x.email = email
          /\ users' = users \cup {[id |-> nextId.users, email |-> email]}
    /\ nextId' = [nextId EXCEPT !.users = @ + 1]
    /\ req' = [op |-> "add_user", id |-> nextId.users, resumes |-> 0, job_matches |-> 0]
    /\ UNCHANGED <<resumes, jobs, job_matches, resp, fnIn, fnOut>>

AddResume ==
    /\ nextId.resumes <= MaxResumes
    /\ \E u \in users :
          resumes' = resumes \cup {ResumeRow(nextId.resumes, u.id, ".pdf", StoredText)}
    /\ nextId' = [nextId EXCEPT !.resumes = @ + 1]
    /\ req' = [op |-> "add_resume", id |-> nextId.resumes, resumes |-> 0, job_matches |-> 0]
    /\ UNCHANGED <<users, jobs, job_matches, resp, fnIn, fnOut>>

AddJob ==
    /\ nextId.jobs <= MaxJobs
    /\ \E job_data \in {d \in JobDatas : d.description.len >= MinJobDescription} :
          jobs' = jobs \cup {[id |-> nextId.jobs, title |-> job_data.title,
                              description |-> job_data.description,
                              required_skills |-> job_data.required_skills]}
    /\ nextId' = [nextId EXCEPT !.jobs = @ + 1]
    /\ req' = [op |-> "add_job", id |-> nextId.jobs, resumes |-> 0, job_matches |-> 0]
    /\ UNCHANGED <<users, resumes, job_matches, resp, fnIn, fnOut>>

AddJobMatch ==
    /\ nextId.job_matches <= MaxMatches
    /\ \E resume \in resumes, job \in jobs :
          job_matches' = job_matches \cup
              {[id |-> nextId.job_matches, resume_id |-> resume.id, job_id |-> job.id]}
    /\ nextId' = [nextId EXCEPT !.job_matches = @ + 1]
    /\ req' = [op |-> "add_job_match", id |-> nextId.job_matches, resumes |-> 0, job_matches |-> 0]
    /\ UNCHANGED <<users, resumes, jobs, resp, fnIn, fnOut>>

\* db.delete(user): User.resumes cascades, and Resume.job_matches after it
DeleteUser ==
    /\ \E u \in users :
          LET gone == resumes_of_users({u.id})
              gone_matches == job_matches_of_resumes({r.id : r \in gone})
          IN  /\ users' = users \ {u}
              /\ resumes' = resumes \ gone
              /\ job_matches' = job_matches \ gone_matches
              /\ req' = [op |-> "delete_user", id |-> u.id, resumes |-> Cardinality(gone),
                         job_matches |-> Cardinality(gone_matches)]
    /\ UNCHANGED <<jobs, nextId, resp, fnIn, fnOut>>

\* db.delete(resume): Resume.job_matches cascades
DeleteResumeRow ==
    /\ \E resume \in resumes :
          LET gone_matches == job_matches_of_resumes({resume.id})
          IN  /\ resumes' = resumes \ {resume}
              /\ job_matches' = job_matches \ gone_matches
              /\ req' = [op |-> "delete_resume", id |-> resume.id, resumes |-> 0,
                         job_matches |-> Cardinality(gone_matches)]
    /\ UNCHANGED <<users, jobs, nextId, resp, fnIn, fnOut>>

\* db.delete(job): Job.job_matches cascades
DeleteJob ==
    /\ \E job \in jobs :
          LET gone_matches == job_matches_of_jobs({job.id})
          IN  /\ jobs' = jobs \ {job}
              /\ job_matches' = job_matches \ gone_matches
              /\ req' = [op |-> "delete_job", id |-> job.id, resumes |-> 0,
                         job_matches |-> Cardinality(gone_matches)]
    /\ UNCHANGED <<users, resumes, nextId, resp, fnIn, fnOut>>

NextModels ==
    \/ AddUser
    \/ AddResume
    \/ AddJob
    \/ AddJobMatch
    \/ DeleteUser
    \/ DeleteResumeRow
    \/ DeleteJob

SpecModels == InitModels /\ [][NextModels]_vars

\* C11: after any sequence of additions and deletions every Resume
\* references exactly one stored User and every JobMatch exactly one stored
\* Resume and one stored Job; a deleted User leaves none of its Resumes, a
\* deleted Resume or Job none of the JobMatches that referenced it.
C11_NoOrphanRows ==
    /\ \A r \in resumes : Cardinality({u \in users : u.id = r.user_id}) = 1
    /\ \A m \in job_matches :
          /\ Cardinality({r \in resumes : r.id = m.resume_id}) = 1
          /\ Cardinality({j \in jobs : j.id = m.job_id}) = 1
    /\ req.op = "delete_user" => ~\E r \in resumes : r.user_id = req.id
    /\ req.op = "delete_resume" => ~\E m \in job_matches : m.resume_id = req.id
    /\ req.op = "delete_job" => ~\E m \in job_matches : m.job_id = req.id

\* C11, witness: a user was deleted, a resume and a job match went with it,
\* and another user's resume and its job match are still stored.
C11_Witness ==
    /\ req.op = "delete_user" /\ req.resumes >= 1 /\ req.job_matches >= 1
    /\ resumes # {} /\ job_matches # {}

\* --------------------------------- specification: requests at the same time

\* FastAPI runs a "def" handler in a worker thread, so register requests
\* overlap.  Each request gets its own session from get_db and goes through:
\* the session is opened, the query for the email runs, the row is added and
\* committed, the finally clause of get_db closes the session, the request
\* ends.  req[p] holds the position and the local variables of request p,
\* resp[p] what it answers.

Procs == 1..NProcs

IdleReq == [op |-> "none", email |-> "", pc |-> "idle", session |-> "none", existing_user |-> FALSE]

\* Column(String(255), unique=True): the insert of a second row with the
\* email fails at db.commit()
no_unique_index(email) == FALSE
unique_violation(email) == \E x \in users : x.email = email

\* get_db: "try: yield db / finally: db.close()", by how the handler ended
get_db_no_finally(raised) == IF raised THEN "open" ELSE "closed"
get_db_exit(raised) == "closed"

InitSessions ==
    /\ DbEmpty
    /\ req = [p \in Procs |-> IdleReq]
    /\ resp = [p \in Procs |-> NoResp]
    /\ fnIn = <<>> /\ fnOut = <<>>

\* db = SessionLocal(); the handler is called with user_data
OpenSession(p) ==
    /\ req[p].pc = "idle"
    /\ \E email \in Emails :
          req' = [req EXCEPT ![p] = [op |-> "register", email |-> email, pc |-> "query",
                                     session |-> "open", existing_user |-> FALSE]]
    /\ UNCHANGED <<dbVars, resp, fnIn, fnOut>>

\* existing_user = db.query(User).filter(User.email == user_data.email).first()
RegisterQuery(p) ==
    /\ req[p].pc = "query"
    /\ LET existing_user == \E x \in users : x.email = req[p].email
       IN  IF existing_user
           THEN /\ req' = [req EXCEPT ![p].pc = "raised", ![p].existing_user = TRUE]
                /\ resp' = [resp EXCEPT ![p] = Http(400, "Email already registered")]
           ELSE /\ req' = [req EXCEPT ![p].pc = "commit"]
                /\ UNCHANGED resp
    /\ UNCHANGED <<dbVars, fnIn, fnOut>>

\* db.add(new_user); db.commit(); db.refresh(new_user); return new_user
RegisterCommit(p) ==
    /\ req[p].pc = "commit"
    /\ IF unique_violation(req[p].email)
       THEN /\ req' = [req EXCEPT ![p].pc = "raised"]
            /\ resp' = [resp EXCEPT ![p] = Http(500, "Internal Server Error")]
            /\ UNCHANGED <<users, nextId>>
       ELSE LET new_user == [id |-> nextId.users, email |-> req[p].email]
            IN  /\ users' = users \cup {new_user}
                /\ nextId' = [nextId EXCEPT !.users = @ + 1]
                /\ req' = [req EXCEPT ![p].pc = "returned"]
                /\ resp' = [resp EXCEPT ![p] = [status |-> 201, detail |-> "",
                                                body |-> [kind |-> "user", user |-> new_user]]]
    /\ UNCHANGED <<resumes, jobs, job_matches, fnIn, fnOut>>

\* the handler has returned or raised: get_db resumes after its yield
CloseSession(p) ==
    /\ req[p].pc \in {"returned", "raised"}
    /\ req' = [req EXCEPT ![p].pc = "finished",
                          ![p].session = get_db_exit(req[p].pc = "raised")]
    /\ UNCHANGED <<dbVars, resp, fnIn, fnOut>>

\* the response is sent; the worker takes the next request
EndRequest(p) ==
    /\ req[p].pc = "finished"
    /\ req' = [req EXCEPT ![p] = IdleReq]
    /\ resp' = [resp EXCEPT ![p] = NoResp]
    /\ UNCHANGED <<dbVars, fnIn, fnOut>>

Handle(p) == RegisterQuery(p) \/ RegisterCommit(p) \/ CloseSession(p) \/ EndRequest(p)

NextSessions ==
    \E p \in Procs :
        \/ OpenSession(p)
        \/ RegisterQuery(p)
        \/ RegisterCommit(p)
        \/ CloseSession(p)
        \/ EndRequest(p)

SpecSessions == InitSessions /\ [][NextSessions]_vars

\* a request that has arrived is run to its end by its worker thread
LiveSessions == SpecSessions /\ \A p \in Procs : WF_vars(Handle(p))

\* C12: no two stored users have the same email, also when two register
\* requests for one email both run their query before either commits.
C12_EmailUnique ==
    \A x \in users, y \in users : x.email = y.email => x = y

\* C12, witness: two requests for one email both found no existing user; one
\* has committed and the other's commit was refused.
C12_Witness ==
    \E p \in Procs, q \in Procs :
        /\ p # q /\ req[p].email = req[q].email
        /\ ~req[p].existing_user /\ ~req[q].existing_user
        /\ resp[p].status = 201 /\ resp[q].status = 500
        /\ Cardinality({x \in users : x.email = req[p].email}) = 1

\* C13: register answers 400 "Email already registered" and leaves the users
\* as they are when its query finds the email stored, and adds exactly one
\* user, with that email, when its query finds the email new.
C13_RegisterOutcome ==
    [][\A p \in Procs :
          /\ (req[p].pc = "query" /\ req'[p].pc # "query"
              /\ \E x \in users : x.email = req[p].email) =>
                 /\ resp'[p].status = 400 /\ resp'[p].detail = "Email already registered"
                 /\ users' = users
          /\ (req[p].pc = "commit" /\ req'[p].pc # "commit") =>
                 /\ users \subseteq users' /\ Cardinality(users' \ users) = 1
                 /\ \A x \in users' \ users : x.email = req[p].email]_vars

\* C17: a session opened by get_db is closed when its request ends, whether
\* the handler returned or raised: an open session is eventually closed, and
\* no finished request has its session open.
C17_SessionsClosed ==
    /\ [](\A p \in Procs : req[p].pc = "finished" => req[p].session = "closed")
    /\ \A p \in Procs : (req[p].session = "open") ~> (req[p].session = "closed")

\* C17, witness: a request whose commit was refused has raised, is finished,
\* and its session is closed, while another request's session is open.
C17_Witness ==
    \E p \in Procs, q \in Procs :
        /\ req[p].pc = "finished" /\ resp[p].status = 500 /\ req[p].session = "closed"
        /\ req[q].session = "open"

\* ------------------------------------------------- specification: parse_pdf

\* texts of 0, 30, 49, 50, 100 and 2800 characters after strip(); the first
\* is white space only
PdfTexts ==
    { [RawB EXCEPT !.len = 12, !.strip = 0, !.words = 0],
      RawTiny,
      [RawB EXCEPT !.len = 51, !.strip = 49, !.words = 8],
      [RawB EXCEPT !.len = 50, !.strip = 50, !.words = 8],
      RawB,
      RawA }

Extractions == {Fails, Yields(NoText)} \cup {Yields(t) : t \in PdfTexts}

InitPdf ==
    /\ DbEmpty /\ req = Idle /\ resp = NoResp
    /\ fnIn \in [size : {0, 5000}, plumber : Extractions, mupdf : Extractions]
    /\ fnOut = <<>>

ParsePdf ==
    /\ fnOut = <<>>
    /\ fnOut' = <<parse_pdf(fnIn)>>
    /\ UNCHANGED <<dbVars, req, resp, fnIn>>

SpecPdf == InitPdf /\ [][ParsePdf]_vars

\* the number of characters an extractor hands to parse_pdf: none when it raised
PlumberLen == IF fnIn.plumber.raises THEN 0 ELSE fnIn.plumber.text.strip
MupdfLen == IF fnIn.mupdf.raises THEN 0 ELSE fnIn.mupdf.text.strip

\* C14: parse_pdf calls pdfplumber first and PyMuPDF only when pdfplumber's
\* text is empty or shorter than 50 characters; with 50 or more characters
\* pdfplumber's text is returned and PyMuPDF is not called; an extractor
\* that raises counts as one that found no text.
C14_PdfFallback ==
    (fnOut # <<>> /\ fnIn.size # 0) =>
        LET r == fnOut[1]
        IN  /\ r.calls[1] = "pdfplumber"
            /\ (\E i \in 1..Len(r.calls) : r.calls[i] = "pymupdf") <=> PlumberLen < 50
            /\ PlumberLen >= 50 =>
                  /\ r.exc = "none" /\ r.calls = <<"pdfplumber">>
                  /\ r.value = [fnIn.plumber.text EXCEPT !.len = PlumberLen]
            /\ (PlumberLen < 50 /\ MupdfLen > 0) =>
                  r.exc = "none" /\ r.value = [fnIn.mupdf.text EXCEPT !.len = MupdfLen]
            /\ fnIn.plumber.raises => r = parse_pdf([fnIn EXCEPT !.plumber = Yields(NoText)])
            /\ fnIn.mupdf.raises => r = parse_pdf([fnIn EXCEPT !.mupdf = Yields(NoText)])

\* C14, witness: pdfplumber found 49 characters and PyMuPDF 2800, and the
\* text returned is PyMuPDF's.
C14_Witness ==
    /\ fnOut # <<>> /\ fnIn.size # 0
    /\ PlumberLen = 49 /\ MupdfLen > 50
    /\ fnOut[1].calls = <<"pdfplumber", "pymupdf">>
    /\ fnOut[1].value.len = MupdfLen

\* C15: parse_pdf raises ValueError for empty content without calling an
\* extractor, raises ValueError when the text it is left with is empty, and
\* returns a non-empty text whenever it returns.
C15_PdfNeverEmpty ==
    fnOut # <<>> =>
        LET r == fnOut[1]
            left == IF PlumberLen < 50 THEN MupdfLen ELSE PlumberLen
        IN  /\ fnIn.size = 0 => (r.exc = "ValueError" /\ r.calls = <<>>)
            /\ (fnIn.size # 0 /\ left = 0) => r.exc = "ValueError"
            /\ r.exc \in {"none", "ValueError"}
            /\ r.exc = "none" => r.value.len > 0

\* C15, witness: pdfplumber found white space only, PyMuPDF raised, and
\* parse_pdf raised ValueError after calling both.
C15_Witness ==
    /\ fnOut # <<>> /\ fnIn.size # 0
    /\ ~fnIn.plumber.raises /\ fnIn.plumber.text.len > 0 /\ PlumberLen = 0
    /\ fnIn.mupdf.raises
    /\ fnOut[1].exc = "ValueError" /\ Len(fnOut[1].calls) = 2

\* ------------------------------------------------- more claims on the API

\* C16: analyze_resume on a resume of the caller answers 200 and changes at
\* most that resume's extracted_skills, technical_skills, soft_skills, tools
\* and ats_score: its id, user_id, filename, raw_text and created_at, every
\* other resume, and the users, jobs and job matches stay as they were.
C16_AnalyzeFrame ==
    [][(/\ req.op = "none" /\ req'.op = "analyze_resume"
        /\ \E r \in resumes : r.id = req'.resume_id /\ r.user_id = req'.user) =>
          LET old == CHOOSE r \in resumes : r.id = req'.resume_id
          IN  /\ resp'.status = 200
              /\ \E new \in resumes' :
                    /\ new.id = old.id /\ new.user_id = old.user_id
                    /\ new.filename = old.filename /\ new.raw_text = old.raw_text
                    /\ new.created_at = old.created_at
                    /\ resumes' \ {new} = resumes \ {old}
                    /\ resp'.body.resume = new
              /\ UNCHANGED <<users, jobs, job_matches>>]_vars

\* C16, witness: one of two stored resumes was re-analysed by its owner, with
\* a job stored as well.
C16_Witness ==
    /\ req.op = "analyze_resume" /\ resp.status = 200
    /\ Cardinality(resumes) = 2 /\ jobs # {}
    /\ resp.body.resume.extracted_skills # <<>>

\* the resumes of the user who asked for the dashboard
Mine == {r \in resumes : r.user_id = req.user}

\* total_resumes and latest_resume of the dashboard are the caller's
DashboardCounts ==
    /\ resp.status = 200
    /\ resp.body.total_resumes = Cardinality(Mine)
    /\ resp.body.latest_resume = <<>> <=> resp.body.total_resumes = 0
    /\ Mine # {} =>
          /\ resp.body.latest_resume[1] \in Mine
          /\ \A r \in Mine : r.created_at <= resp.body.latest_resume[1].created_at

\* C18 as stated: average_ats_score is the mean of the caller's ats_score
\* values, 0 when there is none.
C18_DashboardExactMean ==
    req.op = "get_dashboard" =>
        /\ DashboardCounts
        /\ resp.body.average_ats_score * Cardinality(Mine) = SumAts(Mine)

\* C18, amended: get_dashboard returns total_resumes equal to the number of
\* the caller's resumes, average_ats_score equal to the mean of their
\* ats_score values rounded to two decimals (within half a hundredth of the
\* mean; 0 when there is none), and latest_resume equal to the caller's
\* most recently created resume, absent exactly when total_resumes is 0.
C18_DashboardRoundedMean ==
    req.op = "get_dashboard" =>
        LET n == Cardinality(Mine)
            d == resp.body.average_ats_score * n - SumAts(Mine)
        IN  /\ DashboardCounts
            /\ n = 0 => resp.body.average_ats_score = 0
            /\ 2 * d <= n /\ -2 * d <= n

\* C18, witness: the caller owns two resumes whose scores have a mean of
\* three decimals, and the dashboard shows the later one as the latest.
C18_Witness ==
    /\ req.op = "get_dashboard" /\ resp.body.total_resumes = 2
    /\ SumAts(Mine) % 2 = 1
    /\ resp.body.latest_resume[1].id = 2

\* C19: no request stores a JobMatch: the table job_matches is empty in
\* every reachable state, match_job leaves the whole database as it was,
\* and get_resume_matches answers an owner with total_matches 0 and no match.
C19_NoJobMatchStored ==
    /\ [](/\ job_matches = {}
          /\ (req.op = "get_resume_matches" /\ resp.status = 200) =>
                (resp.body.total_matches = 0 /\ resp.body.matches = {}))
    /\ [][req'.op = "match_job" => UNCHANGED dbVars]_vars

\* C19, witness: with a job created and two resumes stored, an owner asked
\* for the matches of a resume and was answered 200.
C19_Witness ==
    /\ req.op = "get_resume_matches" /\ resp.status = 200
    /\ jobs # {} /\ Cardinality(resumes) = 2

\* ---------------------------------------------- specification: extract_skills

\* The argument is None, a number, the empty string, or a text in which any
\* of three technical skills, a programming pattern, the soft skills and the
\* tools are found, next to words of no dictionary.
InitSkills ==
    /\ DbEmpty /\ req = Idle /\ resp = NoResp
    /\ fnIn \in {[none |-> TRUE], [int |-> 5], NoText} \cup
                { WithSkills(t, [tech |-> a \cup {Word(NTech + 5)}, prog |-> b,
                                 soft |-> c \cup {Word(1)}, tools |-> d]) :
                    t \in {RawB, [RawB EXCEPT !.strip = 0]},
                    a \in SUBSET {Word(1), Word(2), Word(NTech)},
                    b \in SUBSET PROGRAMMING_PATTERNS,
                    c \in SUBSET SOFT_SKILLS, d \in SUBSET TOOLS }
    /\ fnOut = <<>>

ExtractSkills ==
    /\ fnOut = <<>>
    /\ fnOut' = <<extract_skills(fnIn)>>
    /\ UNCHANGED <<dbVars, req, resp, fnIn>>

SpecSkills == InitSkills /\ [][ExtractSkills]_vars

\* a list in ascending order that holds nothing twice
SortedNoDuplicates(q) ==
    \A i \in 1..Len(q), j \in 1..Len(q) : i < j => (q[i].w <= q[j].w /\ q[i] # q[j])

\* C20: all_skills holds exactly the entries of technical_skills,
\* soft_skills and tools, each of the four lists is sorted and holds
\* nothing twice, and the four lists are empty when the text is empty or
\* the argument is not a string.
C20_SkillLists ==
    fnOut # <<>> =>
        LET r == fnOut[1]
        IN  /\ Range(r.all_skills) =
                  Range(r.technical_skills) \cup Range(r.soft_skills) \cup Range(r.tools)
            /\ \A k \in {"all_skills", "technical_skills", "soft_skills", "tools"} :
                  SortedNoDuplicates(r[k])
            /\ ("len" \notin DOMAIN fnIn \/ fnIn.len = 0) =>
                  \A k \in {"all_skills", "technical_skills", "soft_skills", "tools"} : r[k] = <<>>

\* C20, witness: a text with skills of all three dictionaries and a
\* programming pattern gave seven skills, four of them technical.
C20_Witness ==
    /\ fnOut # <<>>
    /\ Len(fnOut[1].all_skills) = 7 /\ Len(fnOut[1].technical_skills) = 4
    /\ Len(fnOut[1].soft_skills) = 2 /\ Len(fnOut[1].tools) = 1

\* C20, witness of the guard: the argument was None and four empty lists came back.
C20_NotAStringWitness ==
    /\ fnOut # <<>> /\ "len" \notin DOMAIN fnIn
    /\ fnOut[1] = NoSkills

\* --------------------------------------- more claims on calculate_match_score

\* the skills extract_skills recognises in the job description drawn
JobSkills == extract_skills(fnIn.jd)
ResumeSkills == extract_skills(fnIn.text)

\* the TF-IDF step cannot give a cosine similarity for the inputs drawn
NoCosine == fnIn.text.strip <= 10 \/ fnIn.jd.strip <= 10 \/ fnIn.tfidf.raises

\* C21: calculate_match_score never raises because of the TF-IDF step and
\* puts 0.5 in the place of each term it cannot compute: of the skill match
\* rate when the job has no recognised skill, of the technical match rate
\* when it has no recognised technical skill, of the cosine similarity when
\* a text has 10 or fewer characters after strip() or TF-IDF raises; every
\* other term is computed.
C21_MatchDefaults ==
    fnOut # <<>> =>
        LET r == fnOut[1]
            have == Range(ResumeSkills.all_skills)
            want == Range(JobSkills.all_skills)
            haveTech == Range(ResumeSkills.technical_skills)
            wantTech == Range(JobSkills.technical_skills)
            smr == IF want = {} THEN Rat(1, 2)
                   ELSE Rat(Cardinality(want \cap have), Cardinality(want))
            tmr == IF wantTech = {} THEN Rat(1, 2)
                   ELSE Rat(Cardinality(wantTech \cap haveTech), Cardinality(wantTech))
            cos == IF NoCosine THEN Rat(1, 2) ELSE fnIn.tfidf.cos
        IN  /\ r.exc = "none"
            /\ NoCosine => r.cosine_similarity = 5000
            /\ ~NoCosine => r.cosine_similarity = Round2(RMul(fnIn.tfidf.cos, RInt(100)))
            /\ r.match_percentage =
                  Round2(RAdd(RAdd(RMul(smr, RInt(40)), RMul(tmr, RInt(30))), RMul(cos, RInt(30))))
            /\ (want = {} /\ NoCosine) => r.match_percentage = 5000

\* C21, witness: the job names tools and no technical skill, the resume has
\* them all, and TF-IDF raised on two texts of more than 10 characters:
\* 0.40 * 1 + 0.30 * 0.5 + 0.30 * 0.5 gives 70.
C21_Witness ==
    /\ fnOut # <<>>
    /\ JobSkills.technical_skills = <<>> /\ JobSkills.tools # <<>>
    /\ fnIn.text.strip > 10 /\ fnIn.jd.strip > 10 /\ fnIn.tfidf.raises
    /\ fnOut[1].exc = "none" /\ fnOut[1].match_percentage = 7000

\* ------------------------------------------------ specification: clean_text

\* clean_text on the characters of its argument.  A string is a sequence of
\* runs [c, n]: n >= 1 times the character c, which is one of
\*   "word" (a character of \w), "punct" (one of . , - ( ) # + / @),
\*   "space", "newline" (white space other than space and \r), "cr" (\r),
\*   "nul" (\x00), "other" (any other character, "!" or \x01 for example).
\* A value is [str |-> whether it is a str, runs |-> its characters].

MaxTextLen == 1000000

Whitespace == {"space", "newline", "cr"}

RECURSIVE RunLen(_)
RunLen(q) == IF q = <<>> THEN 0 ELSE Head(q).n + RunLen(Tail(q))

\* re.sub(r'\s+', ' ', text): every stretch of white space becomes one space
RECURSIVE squeeze(_)
squeeze(q) ==
    IF q = <<>> THEN <<>>
    ELSE LET rest == squeeze(Tail(q))
         IN  IF Head(q).c \notin Whitespace THEN <<Head(q)>> \o rest
             ELSE IF rest # <<>> /\ rest[1].c \in Whitespace THEN rest
             ELSE <<[c |-> "space", n |-> 1]>> \o rest

\* text.strip()
untrimmed(q) == q
trim(q) ==
    LET kept == {i \in 1..Len(q) : q[i].c \notin Whitespace}
    IN  IF kept = {} THEN <<>>
        ELSE SubSeq(q, CHOOSE i \in kept : \A j \in kept : i <= j,
                       CHOOSE i \in kept : \A j \in kept : j <= i)

\* text[:k]
RECURSIVE cut(_, _)
cut(q, k) ==
    IF q = <<>> \/ k = 0 THEN <<>>
    ELSE IF Head(q).n >= k THEN <<[Head(q) EXCEPT !.n = k]>>
    ELSE <<Head(q)>> \o cut(Tail(q), k - Head(q).n)

clean_string(text) ==
    IF ~text.str \/ text.runs = <<>> THEN [str |-> TRUE, runs |-> <<>>]
    ELSE LET replaced == [i \in DOMAIN text.runs |->
                            IF text.runs[i].c \in {"nul", "cr"}
                            THEN [text.runs[i] EXCEPT !.c = "space"] ELSE text.runs[i]]
             \* " ".join(text.split())
             joined == trim(squeeze(replaced))
             \* re.sub(r'[^\w\s.,\-()#+/@]', ' ', text)
             subbed == [i \in DOMAIN joined |->
                          IF joined[i].c = "other"
                          THEN [joined[i] EXCEPT !.c = "space"] ELSE joined[i]]
             collapsed == squeeze(subbed)
             limited == IF RunLen(collapsed) > MaxTextLen
                        THEN cut(collapsed, MaxTextLen) ELSE collapsed
         IN  [str |-> TRUE, runs |-> trim(limited)]

\* The argument is None, or a string of up to MaxRuns runs, each of one
\* character or of 999,999.
InitClean ==
    /\ DbEmpty /\ req = Idle /\ resp = NoResp
    /\ fnIn \in {[str |-> FALSE, runs |-> <<>>]} \cup
                { [str |-> TRUE, runs |-> q] :
                    q \in UNION { [1..k -> [c : {"word", "punct", "other", "nul"} \cup Whitespace,
                                            n : {1, MaxTextLen - 1}]] : k \in 0..MaxRuns } }
    /\ fnOut = <<>>

\* clean_text is applied to the argument, then to its own result
CleanText ==
    /\ Len(fnOut) < 2
    /\ fnOut' = Append(fnOut, clean_string(IF fnOut = <<>> THEN fnIn ELSE fnOut[1]))
    /\ UNCHANGED <<dbVars, req, resp, fnIn>>

SpecClean == InitClean /\ [][CleanText]_vars

\* C22: clean_text returns a string of at most 1,000,000 characters that
\* neither starts nor ends with white space, has no two white-space
\* characters in a row, and holds only word characters, single spaces and
\* the characters . , - ( ) # + / @; the string is empty for an empty or a
\* non-string argument; and clean_text applied to its result returns it.
C22_CleanText ==
    /\ Len(fnOut) >= 1 =>
          LET r == fnOut[1].runs
          IN  /\ fnOut[1].str
              /\ RunLen(r) <= 1000000
              /\ r # <<>> => (r[1].c # "space" /\ r[Len(r)].c # "space")
              /\ \A i \in 1..Len(r) :
                    /\ r[i].c \in {"word", "punct", "space"} /\ r[i].n >= 1
                    /\ r[i].c = "space" => r[i].n = 1
                    /\ (r[i].c = "space" /\ i < Len(r)) => r[i + 1].c # "space"
              /\ (~fnIn.str \/ fnIn.runs = <<>>) => r = <<>>
    /\ Len(fnOut) = 2 => fnOut[2] = fnOut[1]

\* C22, witness: a string of more than 1,000,000 characters was cut behind a
\* space that replaced a "!", the space was stripped, 999,999 characters
\* came back, and clean_text returned them unchanged.
C22_Witness ==
    /\ Len(fnOut) = 2
    /\ fnIn.str /\ RunLen(fnIn.runs) > 1000000
    /\ \E i \in 1..Len(fnIn.runs) : fnIn.runs[i].c = "other"
    /\ RunLen(fnOut[1].runs) = 999999
    /\ fnOut[2] = fnOut[1]

\* ------------------------------------------------- more claims on parse_pdf

\* C23: parse_pdf returns a text whenever one of the two extractors finds a
\* non-empty one: it raises "Could not extract text from PDF" only when both
\* find nothing, and a pdfplumber text of 1 to 49 characters is returned
\* when PyMuPDF finds nothing.
C23_PdfTextNotLost ==
    (fnOut # <<>> /\ fnIn.size # 0) =>
        LET r == fnOut[1]
        IN  /\ (PlumberLen > 0 \/ MupdfLen > 0) => r.exc = "none"
            /\ r.exc = "ValueError" => (PlumberLen = 0 /\ MupdfLen = 0)
            /\ (PlumberLen \in 1..49 /\ MupdfLen = 0) =>
                  (r.exc = "none" /\ r.value = [fnIn.plumber.text EXCEPT !.len = PlumberLen])

====
